---- MODULE Spec2Model ----
(***************************************************************************)
(* Model of the feature-extraction code of the women-travel-safety index:  *)
(* fetch_features.py (geocoding, nearest police station, general sweep,    *)
(* record assembly) and get_live_features of predict_safety.py.            *)
(*                                                                         *)
(* Python values are tagged records so that None, numbers, strings and     *)
(* dicts can be compared: None is [none |-> TRUE], a number n is           *)
(* [num |-> n], a string s is [str |-> s], float("inf") is [inf |-> TRUE], *)
(* a dict is a record over its keys and a list is a sequence.              *)
(* Coordinates are in units of 0.001 degree.  Floats that carry a fraction *)
(* (distances in metres, commercial_density) are fixed-point with four     *)
(* decimals: [num |-> 1111949] is 111.1949.  Counters and the time context *)
(* are never None and are kept as plain integers.                          *)
(***************************************************************************)
EXTENDS Integers, Sequences, FiniteSets, TLC

VARIABLES pc, travel, lat, lon, data, police_distance, features, record,
          issued, output, counts

vars == <<pc, travel, lat, lon, data, police_distance, features, record,
          issued, output, counts>>

\* ---- bounds -------------------------------------------------------------
\* longest element list in a response to the general sweep
MaxElems == 3
\* longest element list in a response to the police query
MaxPolice == 2
\* longest element list in a response to get_live_features
MaxLive == 3

\* ---- Python values ------------------------------------------------------
None == [none |-> TRUE]
Inf == [inf |-> TRUE]
Num(v) == [num |-> v]
Str(s) == [str |-> s]
EmptyDict == <<>>

\* truth value of a Python object: None, 0, "" and {} are falsy
Truthy(x) ==
    IF DOMAIN x = {"none"} THEN FALSE
    ELSE IF DOMAIN x = {"num"} THEN x.num # 0
    ELSE IF DOMAIN x = {"str"} THEN x.str # ""
    ELSE DOMAIN x # {}

\* a or b
Or(a, b) == IF Truthy(a) THEN a ELSE b

\* dict.get(k) and dict.get(k, default)
Get(d, k) == IF k \in DOMAIN d THEN d[k] ELSE None
GetD(d, k, default) == IF k \in DOMAIN d THEN d[k] ELSE default

\* min(a, b) of two floats, a possibly float("inf")
PyMin(a, b) == IF a = Inf THEN b ELSE IF b.num < a.num THEN b ELSE a

\* round(x, 2)
Round2(x) == Num(((x.num + 50) \div 100) * 100)

\* ---- haversine ----------------------------------------------------------
\* values of the formula of haversine() on the coordinate grid, floored to
\* four decimals of a metre
HaversineTable ==
    <<0, 0, 0, 0>> :> 0 @@ <<0, 0, 0, 1>> :> 1111949 @@ <<0, 0, 0, 2>> :> 2223898 @@
    <<0, 0, 1, 0>> :> 1111949 @@ <<0, 0, 1, 1>> :> 1572533 @@ <<0, 0, 1, 2>> :> 2486394 @@
    <<0, 0, 2, 0>> :> 2223898 @@ <<0, 0, 2, 1>> :> 2486394 @@ <<0, 0, 2, 2>> :> 3145067 @@
    <<0, 1, 0, 0>> :> 1111949 @@ <<0, 1, 0, 1>> :> 0 @@ <<0, 1, 0, 2>> :> 1111949 @@
    <<0, 1, 1, 0>> :> 1572533 @@ <<0, 1, 1, 1>> :> 1111949 @@ <<0, 1, 1, 2>> :> 1572533 @@
    <<0, 1, 2, 0>> :> 2486394 @@ <<0, 1, 2, 1>> :> 2223898 @@ <<0, 1, 2, 2>> :> 2486394 @@
    <<0, 2, 0, 0>> :> 2223898 @@ <<0, 2, 0, 1>> :> 1111949 @@ <<0, 2, 0, 2>> :> 0 @@
    <<0, 2, 1, 0>> :> 2486394 @@ <<0, 2, 1, 1>> :> 1572533 @@ <<0, 2, 1, 2>> :> 1111949 @@
    <<0, 2, 2, 0>> :> 3145067 @@ <<0, 2, 2, 1>> :> 2486394 @@ <<0, 2, 2, 2>> :> 2223898 @@
    <<1, 0, 0, 0>> :> 1111949 @@ <<1, 0, 0, 1>> :> 1572533 @@ <<1, 0, 0, 2>> :> 2486394 @@
    <<1, 0, 1, 0>> :> 0 @@ <<1, 0, 1, 1>> :> 1111949 @@ <<1, 0, 1, 2>> :> 2223898 @@
    <<1, 0, 2, 0>> :> 1111949 @@ <<1, 0, 2, 1>> :> 1572533 @@ <<1, 0, 2, 2>> :> 2486394 @@
    <<1, 1, 0, 0>> :> 1572533 @@ <<1, 1, 0, 1>> :> 1111949 @@ <<1, 1, 0, 2>> :> 1572533 @@
    <<1, 1, 1, 0>> :> 1111949 @@ <<1, 1, 1, 1>> :> 0 @@ <<1, 1, 1, 2>> :> 1111949 @@
    <<1, 1, 2, 0>> :> 1572533 @@ <<1, 1, 2, 1>> :> 1111949 @@ <<1, 1, 2, 2>> :> 1572533 @@
    <<1, 2, 0, 0>> :> 2486394 @@ <<1, 2, 0, 1>> :> 1572533 @@ <<1, 2, 0, 2>> :> 1111949 @@
    <<1, 2, 1, 0>> :> 2223898 @@ <<1, 2, 1, 1>> :> 1111949 @@ <<1, 2, 1, 2>> :> 0 @@
    <<1, 2, 2, 0>> :> 2486394 @@ <<1, 2, 2, 1>> :> 1572533 @@ <<1, 2, 2, 2>> :> 1111949 @@
    <<2, 0, 0, 0>> :> 2223898 @@ <<2, 0, 0, 1>> :> 2486394 @@ <<2, 0, 0, 2>> :> 3145067 @@
    <<2, 0, 1, 0>> :> 1111949 @@ <<2, 0, 1, 1>> :> 1572533 @@ <<2, 0, 1, 2>> :> 2486394 @@
    <<2, 0, 2, 0>> :> 0 @@ <<2, 0, 2, 1>> :> 1111949 @@ <<2, 0, 2, 2>> :> 2223898 @@
    <<2, 1, 0, 0>> :> 2486394 @@ <<2, 1, 0, 1>> :> 2223898 @@ <<2, 1, 0, 2>> :> 2486394 @@
    <<2, 1, 1, 0>> :> 1572533 @@ <<2, 1, 1, 1>> :> 1111949 @@ <<2, 1, 1, 2>> :> 1572533 @@
    <<2, 1, 2, 0>> :> 1111949 @@ <<2, 1, 2, 1>> :> 0 @@ <<2, 1, 2, 2>> :> 1111949 @@
    <<2, 2, 0, 0>> :> 3145067 @@ <<2, 2, 0, 1>> :> 2486394 @@ <<2, 2, 0, 2>> :> 2223898 @@
    <<2, 2, 1, 0>> :> 2486394 @@ <<2, 2, 1, 1>> :> 1572533 @@ <<2, 2, 1, 2>> :> 1111949 @@
    <<2, 2, 2, 0>> :> 2223898 @@ <<2, 2, 2, 1>> :> 1111949 @@ <<2, 2, 2, 2>> :> 0

haversine(lat1, lon1, lat2, lon2) ==
    Num(HaversineTable[<<lat1.num, lon1.num, lat2.num, lon2.num>>])

\* ---- provider responses -------------------------------------------------
\* A response is [exc |-> kind] when requests raises before a response is
\* read, else [status |-> code, json |-> dict]; a response whose body is not
\* JSON has no json field.
Exceptions == {"Timeout", "ConnectionError"}

\* response.raise_for_status()
raise_for_status(resp) == resp.status >= 400 /\ resp.status < 600

\* the try block of get_nearest_amenity / get_safety_features raises a
\* RequestException: from requests.post, from raise_for_status, or from
\* response.json() on a body that is not JSON
RequestFails(resp) ==
    \/ "exc" \in DOMAIN resp
    \/ raise_for_status(resp)
    \/ "json" \notin DOMAIN resp

\* ---- get_nearest_amenity ------------------------------------------------
NearestUsable(el) == Truthy(Get(el, "lat")) /\ Truthy(Get(el, "lon"))

RECURSIVE NearestLoop(_, _, _, _)
NearestLoop(la, lo, elements, min_distance) ==
    IF elements = <<>> THEN min_distance
    ELSE LET el == Head(elements)
             lat2 == Get(el, "lat")
             lon2 == Get(el, "lon")
         IN NearestLoop(la, lo, Tail(elements),
                IF NearestUsable(el)
                THEN PyMin(min_distance, haversine(la, lo, lat2, lon2))
                ELSE min_distance)

NotAvailable == Str("Not Available")

\* the return statement of get_nearest_amenity
NearestResult(d) == IF d # Inf THEN Round2(d) ELSE NotAvailable

\* the except branch of get_nearest_amenity
NearestOnError == NotAvailable

get_nearest_amenity(la, lo, amenity, resp) ==
    IF RequestFails(resp) THEN NearestOnError
    ELSE NearestResult(
            NearestLoop(la, lo, GetD(resp.json, "elements", <<>>), Inf))

\* ---- get_safety_features ------------------------------------------------
\* lat2 / lon2 of one element of the sweep
ResolveLat(el) == Or(Get(el, "lat"), Get(GetD(el, "center", EmptyDict), "lat"))
ResolveLon(el) == Or(Get(el, "lon"), Get(GetD(el, "center", EmptyDict), "lon"))

Skipped(el) == ResolveLat(el) = None \/ ResolveLon(el) = None

\* the road_type_score after an element whose highway tag is hw
RoadScore(score, hw) ==
    IF hw.str \in {"primary", "secondary"} THEN 3
    ELSE IF hw.str \in {"tertiary", "residential"} THEN 2
    ELSE score

\* the local variables of the loop
Acc0 == [street_lighting |-> 0, nearby_shops |-> 0, bus_stop_count |-> 0,
         hospital_distance |-> Inf, poi_count |-> 0, road_type_score |-> 1]

\* one iteration of the loop body
Classify(acc, la, lo, el) ==
    IF Skipped(el) THEN acc
    ELSE LET tags == GetD(el, "tags", EmptyDict)
             dist == haversine(la, lo, ResolveLat(el), ResolveLon(el))
         IN [street_lighting |->
                 IF Get(tags, "highway") = Str("street_lamp")
                 THEN acc.street_lighting + 1 ELSE acc.street_lighting,
             nearby_shops |->
                 IF Truthy(Get(tags, "shop"))
                 THEN acc.nearby_shops + 1 ELSE acc.nearby_shops,
             bus_stop_count |->
                 IF Get(tags, "highway") = Str("bus_stop")
                 THEN acc.bus_stop_count + 1 ELSE acc.bus_stop_count,
             hospital_distance |->
                 IF Get(tags, "amenity") = Str("hospital")
                 THEN PyMin(acc.hospital_distance, dist)
                 ELSE acc.hospital_distance,
             poi_count |->
                 IF Truthy(Get(tags, "amenity"))
                 THEN acc.poi_count + 1 ELSE acc.poi_count,
             road_type_score |->
                 IF Truthy(Get(tags, "highway"))
                 THEN RoadScore(acc.road_type_score, tags["highway"])
                 ELSE acc.road_type_score]

RECURSIVE FeatureLoop(_, _, _, _)
FeatureLoop(acc, la, lo, elements) ==
    IF elements = <<>> THEN acc
    ELSE FeatureLoop(Classify(acc, la, lo, Head(elements)), la, lo,
                     Tail(elements))

\* variant: 0 stands for "no hospital seen"
HospitalResult_zero(d) == IF d # Inf THEN Round2(d) ELSE Num(0)

\* the hospital_distance entry of the returned dict
HospitalResult(d) == IF d # Inf THEN Round2(d) ELSE NotAvailable

\* nearby_shops / 10
CommercialDensity(nearby_shops) == Num(nearby_shops * 1000)

\* variant: the aggregator fills police_distance itself
FeatureDict_police(travel_hour, is_night, is_weekend, acc) ==
    [travel_hour |-> travel_hour,
     is_night |-> is_night,
     is_weekend |-> is_weekend,
     street_lighting |-> acc.street_lighting,
     road_type_score |-> acc.road_type_score,
     nearby_shops |-> acc.nearby_shops,
     bus_stop_count |-> acc.bus_stop_count,
     poi_count |-> acc.poi_count,
     commercial_density |-> CommercialDensity(acc.nearby_shops),
     hospital_distance |-> HospitalResult(acc.hospital_distance),
     police_distance |-> NotAvailable]

\* the dict returned at the end of get_safety_features
FeatureDict(travel_hour, is_night, is_weekend, acc) ==
    [travel_hour |-> travel_hour,
     is_night |-> is_night,
     is_weekend |-> is_weekend,
     street_lighting |-> acc.street_lighting,
     road_type_score |-> acc.road_type_score,
     nearby_shops |-> acc.nearby_shops,
     bus_stop_count |-> acc.bus_stop_count,
     poi_count |-> acc.poi_count,
     commercial_density |-> CommercialDensity(acc.nearby_shops),
     hospital_distance |-> HospitalResult(acc.hospital_distance)]

\* variant: a failed request yields a record of zeros
FeaturesOnError_zeros == FeatureDict(0, 0, 0, Acc0)

\* the except branch of get_safety_features
FeaturesOnError == None

get_safety_features(la, lo, travel_hour, is_night, is_weekend, resp) ==
    IF RequestFails(resp) THEN FeaturesOnError
    ELSE FeatureDict(travel_hour, is_night, is_weekend,
            FeatureLoop(Acc0, la, lo, GetD(resp.json, "elements", <<>>)))

\* ---- inputs of the environment -------------------------------------------
SeqsUpTo(S, n) == UNION {[1..k -> S] : k \in 0..n}

Node(la, lo, tags) == [lat |-> Num(la), lon |-> Num(lo), tags |-> tags]
Way(la, lo, tags) ==
    [center |-> [lat |-> Num(la), lon |-> Num(lo)], tags |-> tags]

\* elements the provider may return to the general sweep
SweepElements ==
    { Node(1, 1, [highway |-> Str("street_lamp")]),
      Node(1, 2, [shop |-> Str("yes")]),
      Node(2, 1, [highway |-> Str("bus_stop")]),
      Node(1, 1, [amenity |-> Str("hospital")]),
      Node(2, 2, [amenity |-> Str("hospital"), shop |-> Str("pharmacy")]),
      Way(1, 2, [highway |-> Str("primary")]),
      Way(2, 1, [highway |-> Str("residential")]),
      [tags |-> [shop |-> Str("yes"), highway |-> Str("secondary")]],
      Node(0, 1, [amenity |-> Str("hospital"), shop |-> Str("yes")]) }

\* elements the provider may return to the police query
PoliceElements ==
    { Node(1, 1, [amenity |-> Str("police")]),
      Node(2, 2, [amenity |-> Str("police")]),
      Node(0, 1, [amenity |-> Str("police")]),
      [tags |-> [amenity |-> Str("police")]] }

Responses(elems, n) ==
    {[exc |-> e] : e \in Exceptions}
    \cup {[status |-> 504], [status |-> 429, json |-> EmptyDict]}
    \cup {[status |-> 200, json |-> EmptyDict]}
    \cup {[status |-> 200, json |-> [elements |-> s]] : s \in SeqsUpTo(elems, n)}

\* what the geocoder may answer
GeocodeResponses ==
    {[exc |-> e] : e \in Exceptions}
    \cup {[status |-> 503]}
    \cup {[status |-> 200, json |-> <<>>]}
    \cup {[status |-> 200, json |-> <<[lat |-> Str(la), lon |-> Str(lo)]>>] :
            la \in {"0.000", "0.001"}, lo \in {"0.001"}}

\* float(s) for the coordinate strings of the geocoder
ParseFloat(s) ==
    IF s.str = "0.000" THEN Num(0)
    ELSE IF s.str = "0.001" THEN Num(1)
    ELSE Num(2)

\* ---- get_coordinates ------------------------------------------------------
get_coordinates(resp) ==
    IF RequestFails(resp) THEN <<None, None>>
    ELSE IF resp.json = <<>> THEN <<None, None>>
    ELSE <<ParseFloat(resp.json[1]["lat"]), ParseFloat(resp.json[1]["lon"])>>

\* ---- the main program of fetch_features.py --------------------------------
\* the date and time typed by the user, as datetime.strptime sees them
DateInputs == {[valid |-> FALSE], [valid |-> TRUE, past |-> TRUE],
               [valid |-> TRUE, past |-> FALSE, weekday |-> 5]}
TimeInputs == {[valid |-> FALSE], [valid |-> TRUE, hour |-> 19]}

IsNight(travel_hour) == IF travel_hour >= 19 \/ travel_hour <= 6 THEN 1 ELSE 0
IsWeekend(weekday) == IF weekday >= 5 THEN 1 ELSE 0

Init ==
    /\ pc = "input"
    /\ travel = None
    /\ lat = None
    /\ lon = None
    /\ data = None
    /\ police_distance = None
    /\ features = None
    /\ record = None
    /\ issued = <<>>
    /\ output = <<>>
    /\ counts = None

ReadInputs ==
    /\ pc = "input"
    /\ \E d \in DateInputs, t \in TimeInputs :
          IF ~d.valid THEN
              /\ output' = Append(output, "Invalid date format.")
              /\ pc' = "exit"
              /\ travel' = travel
          ELSE IF d.past THEN
              /\ output' = Append(output, "Invalid date. Date cannot be in the past.")
              /\ pc' = "exit"
              /\ travel' = travel
          ELSE IF ~t.valid THEN
              /\ output' = Append(output, "Invalid time format.")
              /\ pc' = "exit"
              /\ travel' = travel
          ELSE
              /\ travel' = [travel_hour |-> t.hour,
                            is_night |-> IsNight(t.hour),
                            is_weekend |-> IsWeekend(d.weekday)]
              /\ output' = output
              /\ pc' = "geocode"
    /\ UNCHANGED <<lat, lon, data, police_distance, features, record, issued,
                   counts>>

\* if lat is None
LocationMissing(la) == la = None

Geocode ==
    /\ pc = "geocode"
    /\ \E resp \in GeocodeResponses :
          LET c == get_coordinates(resp)
              err == IF RequestFails(resp) THEN <<"Geocoding Error">> ELSE <<>>
          IN /\ issued' = Append(issued, "nominatim")
             /\ lat' = c[1]
             /\ lon' = c[2]
             /\ IF LocationMissing(c[1])
                THEN /\ output' = output \o err \o <<"Location not found.">>
                     /\ pc' = "exit"
                ELSE /\ output' = output \o err \o <<"Location Found">>
                     /\ pc' = "police"
    /\ UNCHANGED <<travel, data, police_distance, features, record, counts>>

FetchPolice ==
    /\ pc = "police"
    /\ \E resp \in Responses(PoliceElements, MaxPolice) :
          /\ issued' = Append(issued, "overpass police")
          /\ data' = resp
          /\ police_distance' = get_nearest_amenity(lat, lon, "police", resp)
          /\ output' = output \o
                (IF RequestFails(resp) THEN <<"Overpass API Error for police">>
                 ELSE <<>>)
    /\ pc' = "features"
    /\ UNCHANGED <<travel, lat, lon, features, record, counts>>

FetchFeatures ==
    /\ pc = "features"
    /\ \E resp \in Responses(SweepElements, MaxElems) :
          /\ issued' = Append(issued, "overpass sweep")
          /\ data' = resp
          /\ features' = get_safety_features(lat, lon, travel.travel_hour,
                            travel.is_night, travel.is_weekend, resp)
          /\ output' = output \o
                (IF RequestFails(resp) THEN <<"Overpass API Error">> ELSE <<>>)
    /\ pc' = "assemble"
    /\ UNCHANGED <<travel, lat, lon, police_distance, record, counts>>

\* features["police_distance"] = police_distance
Merge(f, pd) ==
    [k \in DOMAIN f \cup {"police_distance"} |->
        IF k = "police_distance" THEN pd ELSE f[k]]

\* variant: the record is assembled whatever the aggregator returned
HaveFeatures_always(f) == TRUE

\* if features
HaveFeatures(f) == Truthy(f)

Assemble ==
    /\ pc = "assemble"
    /\ IF HaveFeatures(features)
       THEN /\ features' = Merge(features, police_distance)
            /\ record' = features'
            /\ output' = Append(output, "SAFETY FEATURES")
       ELSE /\ output' = Append(output, "Could not fetch safety data.")
            /\ UNCHANGED <<features, record>>
    /\ pc' = "done"
    /\ UNCHANGED <<travel, lat, lon, data, police_distance, issued, counts>>

\* ---- get_live_features (predict_safety.py) -------------------------------
\* elements the provider may return to get_live_features ("out tags")
LiveElements ==
    { [tags |-> [amenity |-> Str("police")]],
      [tags |-> [amenity |-> Str("hospital")]],
      [tags |-> [highway |-> Str("street_lamp")]],
      [tags |-> [amenity |-> Str("police"), highway |-> Str("street_lamp")]],
      EmptyDict }

\* requests.get or response.json() raises inside the try block
LiveFails(resp) == "exc" \in DOMAIN resp \/ "json" \notin DOMAIN resp

RECURSIVE LiveLoop(_, _)
LiveLoop(phl, elements) ==
    IF elements = <<>> THEN phl
    ELSE LET t == GetD(Head(elements), "tags", EmptyDict)
         IN LiveLoop(
              IF Get(t, "amenity") = Str("police")
              THEN <<phl[1] + 1, phl[2], phl[3]>>
              ELSE IF Get(t, "amenity") = Str("hospital")
              THEN <<phl[1], phl[2] + 1, phl[3]>>
              ELSE IF Get(t, "highway") = Str("street_lamp")
              THEN <<phl[1], phl[2], phl[3] + 1>>
              ELSE phl,
              Tail(elements))

\* fallback for missing street light data
LightFallback(phl) == IF phl[3] = 0 THEN <<phl[1], phl[2], 5>> ELSE phl

\* the bare except branch of get_live_features
LiveOnError == <<0, 0, 0>>

get_live_features(resp) ==
    IF LiveFails(resp) THEN LiveOnError
    ELSE LightFallback(
            LiveLoop(<<0, 0, 0>>, GetD(resp.json, "elements", <<>>)))

\* ---- main() of predict_safety.py ------------------------------------------
InitLive ==
    /\ pc = "load"
    /\ travel = None
    /\ lat = None
    /\ lon = None
    /\ data = None
    /\ police_distance = None
    /\ features = None
    /\ record = None
    /\ issued = <<>>
    /\ output = <<>>
    /\ counts = None

LoadModel ==
    /\ pc = "load"
    /\ \E loaded \in BOOLEAN :
          IF loaded
          THEN /\ output' = Append(output, "AI Model and Scaler loaded")
               /\ pc' = "livegeocode"
          ELSE /\ output' = Append(output, "Model Loading Error")
               /\ pc' = "exit"
    /\ UNCHANGED <<travel, lat, lon, data, police_distance, features, record,
                   issued, counts>>

LiveGeocode ==
    /\ pc = "livegeocode"
    /\ issued' = Append(issued, "geopy")
    /\ \E found \in BOOLEAN, la \in {0, 1}, lo \in {1, 2} :
          IF found
          THEN /\ lat' = Num(la)
               /\ lon' = Num(lo)
               /\ output' = Append(output, "Coordinates found")
               /\ pc' = "live"
          ELSE /\ output' = Append(output, "Could not find that location.")
               /\ pc' = "exit"
               /\ UNCHANGED <<lat, lon>>
    /\ UNCHANGED <<travel, data, police_distance, features, record, counts>>

LiveFetch ==
    /\ pc = "live"
    /\ \E resp \in Responses(LiveElements, MaxLive) :
          /\ issued' = Append(issued, "overpass live")
          /\ data' = resp
          /\ counts' = get_live_features(resp)
    /\ output' = Append(output, "Map Data")
    /\ pc' = "predict"
    /\ UNCHANGED <<travel, lat, lon, police_distance, features, record>>

Predict ==
    /\ pc = "predict"
    /\ \E ok \in BOOLEAN :
          output' = Append(output, IF ok THEN "SAFETY ANALYSIS"
                                   ELSE "Prediction Error")
    /\ pc' = "done"
    /\ UNCHANGED <<travel, lat, lon, data, police_distance, features, record,
                   issued, counts>>

NextLive == LoadModel \/ LiveGeocode \/ LiveFetch \/ Predict

SpecLive == InitLive /\ [][NextLive]_vars

Next == ReadInputs \/ Geocode \/ FetchPolice \/ FetchFeatures \/ Assemble

Spec == Init /\ [][Next]_vars

\* ==== properties =============================================================
\* ---- terms of the specification ---------------------------------------------
SetMax(S) == CHOOSE x \in S : \A y \in S : y <= x
SetMin(S) == CHOOSE x \in S : \A y \in S : x <= y

\* the entity has a coordinate pair of its own / of its center (a coordinate
\* equal to 0 is a coordinate)
HasCoord(d) == "lat" \in DOMAIN d /\ "lon" \in DOMAIN d
DirectPosition(el) == HasCoord(el)
CenterPosition(el) == "center" \in DOMAIN el /\ HasCoord(el.center)
Positioned(el) == DirectPosition(el) \/ CenterPosition(el)
PositionOf(el) ==
    IF DirectPosition(el) THEN <<el.lat, el.lon>>
    ELSE <<el.center.lat, el.center.lon>>

\* the entities a response carries (none when the request failed)
Elements(resp) ==
    IF RequestFails(resp) THEN <<>> ELSE GetD(resp.json, "elements", <<>>)

Tag(el, k) == Get(GetD(el, "tags", EmptyDict), k)
HasTag(el, k) == k \in DOMAIN GetD(el, "tags", EmptyDict)

PositionedIdx(els) == {i \in 1..Len(els) : Positioned(els[i])}

DistanceTo(el) == haversine(lat, lon, PositionOf(el)[1], PositionOf(el)[2]).num

Priority(el) ==
    IF Tag(el, "highway") \in {Str("primary"), Str("secondary")} THEN 3
    ELSE IF Tag(el, "highway") \in {Str("tertiary"), Str("residential")} THEN 2
    ELSE 1

\* get_nearest_amenity("police") has returned and data is its response
PoliceDone == pc = "features"
\* get_safety_features has returned and data is its response
SweepDone == pc \in {"assemble", "done"}

EmptyResult == [status |-> 200, json |-> [elements |-> <<>>]]

\* ---- C1 ---------------------------------------------------------------------
\* C1: after a successful sweep, road_type_score is the maximum road priority
\* among the positioned entities of the response (3 for primary/secondary,
\* 2 for tertiary/residential, 1 otherwise), whatever their order.
RoadScoreIsMaxPriority ==
    (SweepDone /\ ~RequestFails(data)) =>
        LET els == Elements(data)
        IN features.road_type_score =
              SetMax({1} \cup {Priority(els[i]) : i \in PositionedIdx(els)})

\* ---- C2 ---------------------------------------------------------------------
\* C2: after a successful police query, the value returned is the (rounded)
\* minimum distance from the center to the entities that have a position,
\* a coordinate equal to 0 included, and the sentinel exactly when no entity
\* has a position.
NearestIsMinOverPositioned ==
    (PoliceDone /\ ~RequestFails(data)) =>
        LET els == Elements(data)
            D == {DistanceTo(els[i]) : i \in PositionedIdx(els)}
        IN police_distance =
              IF D = {} THEN NotAvailable ELSE Round2(Num(SetMin(D)))

\* ---- C3 ---------------------------------------------------------------------
HospitalIdx(els) ==
    {i \in 1..Len(els) : Tag(els[i], "amenity") = Str("hospital")}

SweepFailureYieldsNoRecord ==
    (SweepDone /\ RequestFails(data)) => (features = None /\ record = None)

\* the sweep was answered with a non-success status
SweepFailed ==
    /\ pc = "assemble"
    /\ "status" \in DOMAIN data
    /\ raise_for_status(data)
    /\ features = None

\* ---- C5 ---------------------------------------------------------------------
\* C5: the value get_nearest_amenity hands back after a transport failure
\* differs from the one it hands back for an empty result set.
NearestFailureDiffersFromEmpty ==
    (PoliceDone /\ RequestFails(data)) =>
        police_distance # get_nearest_amenity(lat, lon, "police", EmptyResult)

\* ---- C6 ---------------------------------------------------------------------
CountIdx(els, P(_)) == Cardinality({i \in PositionedIdx(els) : P(els[i])})
IsLamp(el) == Tag(el, "highway") = Str("street_lamp")
IsShop(el) == HasTag(el, "shop") /\ Tag(el, "shop") # Str("")
IsBusStop(el) == Tag(el, "highway") = Str("bus_stop")
IsAmenity(el) == HasTag(el, "amenity")
IsHospital(el) == Tag(el, "amenity") = Str("hospital")

\* C6: after a successful sweep each count is the number of positioned
\* entities of its category, hospital_distance the (rounded) minimum distance
\* over the hospitals, commercial_density nearby_shops / 10, and the empty
\* result gives zeros, road_type_score 1 and the sentinel.
AggregateIsReduction ==
    (SweepDone /\ ~RequestFails(data)) =>
        LET els == Elements(data)
            H == {DistanceTo(els[i]) :
                    i \in {j \in PositionedIdx(els) : IsHospital(els[j])}}
        IN /\ features.street_lighting = CountIdx(els, IsLamp)
           /\ features.nearby_shops = CountIdx(els, IsShop)
           /\ features.bus_stop_count = CountIdx(els, IsBusStop)
           /\ features.poi_count = CountIdx(els, IsAmenity)
           /\ features.hospital_distance =
                 IF H = {} THEN NotAvailable ELSE Round2(Num(SetMin(H)))
           /\ features.commercial_density = Num(features.nearby_shops * 1000)
           /\ els = <<>> => features.road_type_score = 1

\* ---- C7 ---------------------------------------------------------------------
\* C7: the sweep skips exactly the entities that have neither a direct nor a
\* center position (a coordinate equal to 0 is a position), and a skipped
\* entity changes no field of the result.
SkipsOnlyUnpositioned ==
    (SweepDone /\ ~RequestFails(data)) =>
        LET els == Elements(data)
        IN /\ \A i \in 1..Len(els) : Skipped(els[i]) <=> ~Positioned(els[i])
           /\ FeatureLoop(Acc0, lat, lon, els)
                 = FeatureLoop(Acc0, lat, lon, SelectSeq(els, Positioned))

\* ---- C8 ---------------------------------------------------------------------
AggregatorFields ==
    {"travel_hour", "is_night", "is_weekend", "street_lighting",
     "road_type_score", "nearby_shops", "bus_stop_count", "poi_count",
     "commercial_density", "hospital_distance"}

QueriesDisjointStep ==
    /\ pc = "police" =>
          /\ features' = features
          /\ <<lat', lon', travel'>> = <<lat, lon, travel>>
    /\ pc = "features" =>
          /\ police_distance' = police_distance
          /\ features' # None => DOMAIN features' = AggregatorFields
    /\ (pc = "assemble" /\ features # None) =>
          /\ DOMAIN record' = AggregatorFields \cup {"police_distance"}
          /\ \A k \in AggregatorFields : record'[k] = features[k]
          /\ record'.police_distance = police_distance

\* C8: the police query and the sweep write disjoint fields: the police query
\* leaves the aggregator's inputs and result alone, the sweep leaves
\* police_distance alone and returns a record without police_distance, and
\* the merge adds police_distance and changes no aggregator field.
QueriesWriteDisjointFields == [][QueriesDisjointStep]_vars

\* a record assembled from a numeric police distance and a numeric hospital
\* distance
RecordAssembled ==
    /\ pc = "done"
    /\ record # None
    /\ record.police_distance # NotAvailable
    /\ record.hospital_distance # NotAvailable

\* ---- C9 ---------------------------------------------------------------------
\* C9: the result of get_live_features after a failed request is not the
\* count tuple (0, 0, 0).
LiveFailureIsExplicit ==
    (pc \in {"predict", "done"} /\ LiveFails(data)) => counts # <<0, 0, 0>>

\* ---- C10 --------------------------------------------------------------------
OverpassIssued == \E i \in 1..Len(issued) : issued[i] # "nominatim"

\* C10: no provider query is issued unless geocoding returned a coordinate; a
\* record exists only when the sweep succeeded, after both queries, and holds
\* police_distance; a failed geocoding or sweep ends the run with its failure
\* message and no record.
MainFlowOrder ==
    /\ OverpassIssued => (lat # None /\ lon # None /\ issued[1] = "nominatim")
    /\ record # None =>
          /\ pc = "done"
          /\ ~RequestFails(data)
          /\ issued = <<"nominatim", "overpass police", "overpass sweep">>
          /\ "police_distance" \in DOMAIN record
          /\ record.police_distance = police_distance
          /\ output[Len(output)] = "SAFETY FEATURES"
    /\ (pc = "exit" /\ issued # <<>>) =>
          /\ issued = <<"nominatim">>
          /\ record = None
          /\ output[Len(output)] = "Location not found."
    /\ (pc = "done" /\ RequestFails(data)) =>
          /\ record = None
          /\ output[Len(output)] = "Could not fetch safety data."

\* the run ended with a record printed
RecordEmitted ==
    /\ pc = "done"
    /\ record # None
    /\ Len(issued) = 3
====
